---- MODULE Spec2Model ----
(***************************************************************************)
(* A model of crtomo.configManager.ConfigManager                           *)
(* (src/lib/crtomo/configManager.py): the configuration store, the         *)
(* measurement store with its id counter, the CRMod/CRTomo text codec, the *)
(* pattern generators, duplicate removal and the normal/reciprocal split.  *)
(*                                                                         *)
(* Representation.  A numpy array of configurations is a sequence of rows, *)
(* each row a sequence <<A, B, M, N>>.  `self.configs is None` is the flag *)
(* configs_is_none.  A 1-D empty array (shape (0,)) is the empty sequence  *)
(* with configs_is_none = FALSE; an array of shape (k, 0) is a sequence of *)
(* k empty rows.  Floats that hold electrode numbers are integers.  Every  *)
(* call leaves its name in op, its arguments in args, its outcome in err   *)
(* ("ok" or the exception raised) and what it returned in ret.             *)
(***************************************************************************)
EXTENDS Integers, Sequences, FiniteSets, TLC

VARIABLES
    nr_electrodes,      \* self.nr_electrodes
    configs_is_none,    \* self.configs is None
    configs,            \* self.configs (rows), <<>> while it is None
    measurements,       \* self.measurements: id -> vector
    meas_counter,       \* self.meas_counter
    disk,               \* the file last written by write_crmod_config
    written_from,       \* the rows that file was written from
    op, args, err, ret  \* the last call, its arguments, outcome and result

vars == <<nr_electrodes, configs_is_none, configs, measurements, meas_counter,
          disk, written_from, op, args, err, ret>>

instance_vars == <<nr_electrodes, configs_is_none, configs, measurements, meas_counter>>

----------------------------------------------------------------------------
(* Bounds of the model *)

\* most rows a file or a stored configuration array of the store/codec model holds
MaxRows == 2
\* most rows of a stored configuration array of the codec model
MaxCodecRows == 3
\* most electrodes of an instance of the generator model
MaxElectrodes == 10
\* largest skip (skipc, skipv, start_skip) handed to gen_dipole_dipole
MaxSkip == 2
\* largest step (stepc, stepv) handed to gen_dipole_dipole
MaxStep == 2
\* largest nr_voltage_dipoles handed to gen_dipole_dipole
MaxDipoles == 2
\* largest spacing handed to gen_wenner
MaxSpacing == 3
\* most current dipoles handed to gen_all_voltages_for_injections
MaxInjections == 2
\* most rows stored with add_to_configs before a generator is called
MaxGenStore == 1
\* most rows of a store that is split into normal and reciprocal
MaxSplitRows == 4
\* most rows of a store, or of an array, that duplicates are removed from
MaxDedupRows == 3
\* most measurement sets in one add_measurements input
MaxSets == 2
\* add_measurements and load_crmod_volt are called while the counter is below this
MaxMeas == 1

----------------------------------------------------------------------------
(* Helpers *)

Min(a, b) == IF a < b THEN a ELSE b
Max(a, b) == IF a < b THEN b ELSE a

\* all sequences over S of length lo..hi
SeqsOf(S, lo, hi) == UNION {[1..n -> S] : n \in lo..hi}

NoRet == [ids |-> <<>>, configs |-> <<>>, normal |-> <<>>, reciprocal |-> <<>>]
NoDisk == [exists |-> FALSE, count |-> 0, rows |-> <<>>]

\* the state after ConfigManager(nr_of_electrodes=E)
Constructed(E) ==
    /\ nr_electrodes = E
    /\ configs_is_none = TRUE
    /\ configs = <<>>
    /\ measurements = <<>>
    /\ meas_counter = -1
    /\ disk = NoDisk
    /\ written_from = <<>>
    /\ op = "__init__"
    /\ args = [E |-> E]
    /\ err = "ok"
    /\ ret = NoRet

\* self.configs.shape[0]
shape0(c) == Len(c)

\* numpy.atleast_2d of a configuration array: shape (0,) becomes (1, 0)
atleast_2d(c) == IF c = <<>> THEN << <<>> >> ELSE c

\* whether numpy.vstack((x, y)) raises: the column counts differ
vstack_fails(x, y) == Len(atleast_2d(x)[1]) # Len(atleast_2d(y)[1])

\* numpy.vstack((x, y))
vstack(x, y) == atleast_2d(x) \o atleast_2d(y)

\* a call that raised: nothing of the instance changes
Raises(name, a, e) ==
    /\ op' = name
    /\ args' = a
    /\ err' = e
    /\ ret' = NoRet
    /\ UNCHANGED <<instance_vars, disk, written_from>>

----------------------------------------------------------------------------
(* MeasurementStore: add_measurements *)

\* a counter that is bumped twice for one id
get_next_index_twice(ctr) == ctr + 2

\* _get_next_index: self.meas_counter += 1; return self.meas_counter
get_next_index(ctr) == ctr + 1

\* a transpose fallback that leaves the array as it is
Transpose_none(m) == m

\* subdata.T of a K x L array given as K rows
Transpose(m) == [j \in 1..Len(m[1]) |-> [i \in 1..Len(m) |-> m[i][j]]]

\* the loop `for dataset in subdata`: the state after datasets i..Len(sub)
\* are given ids; st = [measurements, meas_counter, ids]
RECURSIVE store_datasets(_, _, _)
store_datasets(st, sub, i) ==
    IF i > Len(sub) THEN st
    ELSE LET cid == get_next_index(st.meas_counter)
         IN store_datasets(
                [measurements |->
                     [k \in DOMAIN st.measurements \cup {cid} |->
                          IF k = cid THEN sub[i] ELSE st.measurements[k]],
                 meas_counter |-> cid,
                 ids |-> Append(st.ids, cid)],
                sub, i + 1)

\* add_measurements(m) run on the instance state (cin, cfgs, meas, ctr);
\* m is numpy.atleast_2d(measurements): K >= 1 rows of equal length L
add_measurements(cin, cfgs, meas, ctr, m) ==
    LET st0 == [measurements |-> meas, meas_counter |-> ctr, ids |-> <<>>]
        K == Len(m)
        L == Len(m[1])
        n == shape0(cfgs)
    IN IF cin
       THEN [err |-> "no_configs"] @@ st0
       ELSE IF L # n /\ K # n
       THEN [err |-> "shape_mismatch"] @@ st0
       ELSE [err |-> "ok"] @@
            store_datasets(st0, IF L # n THEN Transpose(m) ELSE m, 1)

\* the K x L input whose entry (i, j) is 10*i + j
Matrix(K, L) == [i \in 1..K |-> [j \in 1..L |-> 10 * i + j]]

AddMeasurements ==
    \E K \in 1..MaxSets, L \in 0..MaxRows :
        LET m == Matrix(K, L)
            r == add_measurements(configs_is_none, configs, measurements,
                                  meas_counter, m)
        IN /\ meas_counter < MaxMeas
           /\ measurements' = r.measurements
           /\ meas_counter' = r.meas_counter
           /\ op' = "add_measurements"
           /\ args' = [K |-> K, L |-> L]
           /\ err' = r.err
           /\ ret' = [NoRet EXCEPT !.ids = r.ids]
           /\ UNCHANGED <<nr_electrodes, configs_is_none, configs, disk, written_from>>

----------------------------------------------------------------------------
(* ConfigStore: add_to_configs *)

\* add_to_configs(batch) on the store (cin, cfgs): the new store
\* [is_none, rows], or the old one when the batch is empty
add_to_configs(cin, cfgs, batch) ==
    IF Len(batch) = 0 THEN [is_none |-> cin, rows |-> cfgs]
    ELSE IF cin THEN [is_none |-> FALSE, rows |-> batch]
    ELSE [is_none |-> FALSE, rows |-> vstack(cfgs, batch)]

\* rows a caller hands to add_to_configs in the store/codec model
StoreRows == {<<1, 2, 3, 4>>, <<2, 1, 3, 4>>}

AddToConfigs(Rows, cap) ==
    \E row \in Rows :
        LET batch == <<row>>
            new == add_to_configs(configs_is_none, configs, batch)
        IN /\ Len(configs) < cap
           /\ IF ~configs_is_none /\ vstack_fails(configs, batch)
              THEN Raises("add_to_configs", [configs |-> batch], "ValueError")
              ELSE /\ configs_is_none' = new.is_none
                   /\ configs' = new.rows
                   /\ op' = "add_to_configs"
                   /\ args' = [configs |-> batch]
                   /\ err' = "ok"
                   /\ ret' = [NoRet EXCEPT !.configs = new.rows]
                   /\ UNCHANGED <<nr_electrodes, measurements, meas_counter,
                                  disk, written_from>>

----------------------------------------------------------------------------
(* ConfigCodec *)

\* the factor 1e4 of the pair encoding
PairBase == 10000

\* _crmod_to_abmn: A = col0 % 1e4, B = floor(col0 / 1e4), likewise M, N
crmod_to_abmn(rows) ==
    [i \in 1..Len(rows) |->
        << rows[i][1] % PairBase, rows[i][1] \div PairBase,
           rows[i][2] % PairBase, rows[i][2] \div PairBase >>]

\* _get_crmod_abmn: (A * 1e4 + B, M * 1e4 + N) for every row
get_crmod_abmn(cfgs) ==
    [i \in 1..Len(cfgs) |->
        << cfgs[i][1] * PairBase + cfgs[i][2],
           cfgs[i][3] * PairBase + cfgs[i][4] >>]

\* A text file: [count |-> the first line, rows |-> the data lines], every
\* data line with the same number of columns.
\* numpy.loadtxt squeezes: no line gives shape (0,), one line shape (C,),
\* one column shape (R,); otherwise (R, C).
loadtxt_ndim(f) ==
    IF Len(f.rows) <= 1 \/ Len(f.rows[1]) = 1 THEN 1 ELSE 2

loadtxt_shape0(f) ==
    IF Len(f.rows) = 1 THEN Len(f.rows[1]) ELSE Len(f.rows)

\* the outcome of reading a file up to the decoding of its first two columns
read_error(f) ==
    IF f.count # loadtxt_shape0(f) THEN "count_mismatch"
    ELSE IF loadtxt_ndim(f) = 1 THEN "IndexError"
    ELSE "ok"

\* the instance fields the loaders read and write
Instance ==
    [is_none |-> configs_is_none, configs |-> configs,
     measurements |-> measurements, meas_counter |-> meas_counter]

\* a loader's outcome that leaves the instance st as it was
Failed(st, e) == st @@ [err |-> e, ids |-> <<>>]

\* load_crmod_config(file) on the instance st: the new fields and the outcome
crmod_config_result(st, f) ==
    IF read_error(f) # "ok" THEN Failed(st, read_error(f))
    ELSE [is_none |-> FALSE, configs |-> crmod_to_abmn(f.rows),
          measurements |-> st.measurements, meas_counter |-> st.meas_counter,
          err |-> "ok", ids |-> <<>>]

\* numpy.all(ABMN == self.configs), with numpy's broadcasting of a one-row
\* array; shapes that do not broadcast compare unequal (or raise)
configs_match(abmn, cfgs) ==
    /\ Len(cfgs) >= 1
    /\ Len(cfgs[1]) = 4
    /\ Len(cfgs) = Len(abmn) \/ Len(cfgs) = 1 \/ Len(abmn) = 1
    /\ \A i \in 1..Max(Len(abmn), Len(cfgs)) :
           abmn[Min(i, Len(abmn))] = cfgs[Min(i, Len(cfgs))]

\* column j of the loaded array
Column(f, j) == [i \in 1..Len(f.rows) |-> f.rows[i][j]]

\* load_crmod_volt from the decoding on (lines 228-242): the check against
\* the stored configurations, then the two add_measurements calls; a file
\* with fewer than four columns raises IndexError at the missing column
volt_after_read(st, f) ==
    LET ncols == Len(f.rows[1])
        abmn == crmod_to_abmn(f.rows)
        cfgs1 == IF st.is_none THEN abmn ELSE st.configs
        mag == IF ncols >= 3
               THEN add_measurements(FALSE, cfgs1, st.measurements,
                                     st.meas_counter, <<Column(f, 3)>>)
               ELSE [err |-> "IndexError", measurements |-> st.measurements,
                     meas_counter |-> st.meas_counter, ids |-> <<>>]
        pha == IF mag.err = "ok" /\ ncols >= 4
               THEN add_measurements(FALSE, cfgs1, mag.measurements,
                                     mag.meas_counter, <<Column(f, 4)>>)
               ELSE [err |-> IF mag.err = "ok" THEN "IndexError" ELSE mag.err,
                     measurements |-> mag.measurements,
                     meas_counter |-> mag.meas_counter, ids |-> <<>>]
    IN IF ~st.is_none /\ ~configs_match(abmn, st.configs)
       THEN Failed(st, "config_conflict")
       ELSE [is_none |-> FALSE, configs |-> cfgs1,
             measurements |-> pha.measurements,
             meas_counter |-> pha.meas_counter,
             err |-> pha.err,
             ids |-> IF pha.err = "ok" THEN mag.ids \o pha.ids ELSE <<>>]

\* a load_crmod_volt that compares the row count only after the import
crmod_volt_result_late_check(st, f) ==
    IF read_error(f) = "IndexError" THEN Failed(st, "IndexError")
    ELSE IF read_error(f) = "count_mismatch"
    THEN [volt_after_read(st, f) EXCEPT !.err = "count_mismatch", !.ids = <<>>]
    ELSE volt_after_read(st, f)

\* load_crmod_volt(file) on the instance st
crmod_volt_result(st, f) ==
    IF read_error(f) # "ok" THEN Failed(st, read_error(f))
    ELSE volt_after_read(st, f)

\* a loader's outcome r written to the instance
Loaded(name, r, a, a_failed) ==
    /\ configs_is_none' = r.is_none
    /\ configs' = r.configs
    /\ measurements' = r.measurements
    /\ meas_counter' = r.meas_counter
    /\ op' = name
    /\ args' = IF r.err = "ok" THEN a ELSE a_failed
    /\ err' = r.err
    /\ ret' = [NoRet EXCEPT !.ids = r.ids]
    /\ UNCHANGED <<nr_electrodes, disk, written_from>>

load_crmod_config(f, from_disk) ==
    Loaded("load_crmod_config", crmod_config_result(Instance, f),
           [from_disk |-> from_disk], [from_disk |-> from_disk])

load_crmod_volt(f) ==
    Loaded("load_crmod_volt", crmod_volt_result(Instance, f),
           [ABMN |-> crmod_to_abmn(f.rows),
            mag |-> Column(f, 3), pha |-> Column(f, 4)],
           <<>>)

\* write_crmod_config(filename): the count line, then the encoded pairs
WriteCrmodConfig ==
    IF configs_is_none
    THEN Raises("write_crmod_config", <<>>, "TypeError")
    ELSE /\ disk' = [exists |-> TRUE, count |-> Len(configs),
                     rows |-> get_crmod_abmn(configs)]
         /\ written_from' = configs
         /\ op' = "write_crmod_config"
         /\ args' = <<>>
         /\ err' = "ok"
         /\ ret' = NoRet
         /\ UNCHANGED instance_vars

\* encoded pairs found in the files of the model: (1,2) and (2,1) in the
\* first column, (3,4) in the second, in the reader's format
ABCodes == {20001, 10002}
MNCodes == {40003}
MagValues == {5}
PhaValues == {7}

\* a file of rows r whose first line is off by d from the number of rows
File(r, d) == [count |-> Len(r) + d, rows |-> r]

ConfigFiles ==
    {File(r, d) :
        d \in {-1, 0, 1},
        r \in SeqsOf({<<ab, mn>> : ab \in ABCodes, mn \in MNCodes}, 0, MaxRows)}

VoltFiles ==
    {File([i \in 1..Len(r) |-> SubSeq(r[i], 1, C)], d) :
        d \in {-1, 0, 1},
        C \in 2..4,
        r \in SeqsOf({<<ab, mn, mag, pha>> : ab \in ABCodes, mn \in MNCodes,
                          mag \in MagValues, pha \in PhaValues}, 1, MaxRows)}

LoadCrmodConfig == \E f \in ConfigFiles : load_crmod_config(f, FALSE)

LoadWrittenConfig ==
    /\ disk.exists
    /\ load_crmod_config([count |-> disk.count, rows |-> disk.rows], TRUE)

LoadCrmodVolt ==
    /\ meas_counter < MaxMeas
    /\ \E f \in VoltFiles : load_crmod_volt(f)

----------------------------------------------------------------------------
(* The store and codec model: one instance, its configurations set by     *)
(* add_to_configs and the loaders, its measurements by add_measurements   *)
(* and load_crmod_volt. *)

Init == Constructed(0)

Next ==
    \/ AddToConfigs(StoreRows, MaxRows)
    \/ AddMeasurements
    \/ LoadCrmodConfig
    \/ LoadCrmodVolt

Spec == Init /\ [][Next]_vars

----------------------------------------------------------------------------
(* Claims on the store and codec model *)

\* the ids assigned by a step
NewIds == DOMAIN measurements' \ DOMAIN measurements

\* C2: the first id assigned is 0, the ids assigned by a call are exactly
\* the next integers after the counter, in order, no id is assigned twice
\* or removed, the counter never decreases, and the keys of the
\* MeasurementStore are always exactly 0..meas_counter, over successful
\* and failed add_measurements and load_crmod_volt calls alike.
C2_MeasurementIds ==
    /\ [](DOMAIN measurements = 0..meas_counter)
    /\ [][/\ meas_counter' >= meas_counter
          /\ DOMAIN measurements \subseteq DOMAIN measurements'
          /\ NewIds = (meas_counter + 1)..meas_counter'
          /\ err' = "ok" /\ op' \in {"add_measurements", "load_crmod_volt"}
                => ret'.ids = [i \in 1..(meas_counter' - meas_counter) |->
                                   meas_counter + i]]_vars

\* a second batch of measurements was given ids after a first one
C2_Witness ==
    /\ op = "add_measurements"
    /\ err = "ok"
    /\ Len(ret.ids) = 2
    /\ ret.ids[1] >= 1
    /\ DOMAIN measurements = 0..ret.ids[2]

\* C3: add_measurements fails when no configuration is stored, and when
\* the input matches the number of configurations neither directly nor
\* transposed; a failure changes neither the MeasurementStore nor the
\* counter; a success leaves the existing entries as they were and stores
\* only vectors as long as the ConfigStore has rows.
C3_AddMeasurements ==
    [][op' = "add_measurements" =>
        /\ configs_is_none => err' # "ok"
        /\ args'.L # shape0(configs) /\ args'.K # shape0(configs) => err' # "ok"
        /\ err' # "ok" => /\ measurements' = measurements
                          /\ meas_counter' = meas_counter
        /\ \A k \in DOMAIN measurements :
               k \in DOMAIN measurements' /\ measurements'[k] = measurements[k]
        /\ \A k \in NewIds : Len(measurements'[k]) = shape0(configs)
        /\ configs' = configs /\ configs_is_none' = configs_is_none]_vars

\* a transposed input was stored beside earlier entries
C3_Witness ==
    /\ op = "add_measurements"
    /\ err = "ok"
    /\ args.L # shape0(configs)
    /\ Len(ret.ids) >= 2
    /\ ret.ids[1] >= 1
    /\ \A i \in 1..Len(ret.ids) : Len(measurements[ret.ids[i]]) = shape0(configs)

\* C4: an import that fails on the row count, or a load_crmod_volt that
\* fails on a conflict with the stored configurations, leaves ConfigStore,
\* MeasurementStore and the counter as they were.
C4_FailedImport ==
    [][op' \in {"load_crmod_config", "load_crmod_volt"}
       /\ err' \in {"count_mismatch", "config_conflict"}
       => UNCHANGED <<configs_is_none, configs, measurements, meas_counter>>]_vars

\* a conflicting measurement file was refused by an instance that holds
\* measurements
C4_Witness ==
    /\ op = "load_crmod_volt"
    /\ err = "config_conflict"
    /\ meas_counter >= 0
    /\ ~configs_is_none

\* C5: load_crmod_volt on an empty ConfigStore adopts the decoded rows; on
\* a populated one it succeeds only if the decoded rows are as many as the
\* stored ones and equal them row by row; a success leaves a populated
\* ConfigStore unchanged and adds exactly two entries, the magnitudes
\* under id k and the phases under k + 1, returned in that order.
C5_VoltAcceptance ==
    [][op' = "load_crmod_volt" /\ err' = "ok" =>
        LET k == meas_counter + 1
        IN /\ configs_is_none => configs' = args'.ABMN
           /\ ~configs_is_none => /\ Len(args'.ABMN) = Len(configs)
                                  /\ args'.ABMN = configs
                                  /\ configs' = configs
           /\ ~configs_is_none'
           /\ DOMAIN measurements' = DOMAIN measurements \cup {k, k + 1}
           /\ measurements'[k] = args'.mag
           /\ measurements'[k + 1] = args'.pha
           /\ ret'.ids = <<k, k + 1>>]_vars

----------------------------------------------------------------------------
(* The codec model: configurations are added, written to a file with      *)
(* write_crmod_config, and the file is read back with load_crmod_config.  *)

\* rows a caller hands to add_to_configs in the codec model, electrodes
\* between 1 and 9999
CodecRows == {<<1, 2, 3, 4>>, <<9999, 1, 2, 9998>>, <<5, 5, 7, 7>>}

NextCodec ==
    \/ AddToConfigs(CodecRows, MaxCodecRows)
    \/ WriteCrmodConfig
    \/ LoadWrittenConfig

SpecCodec == Init /\ [][NextCodec]_vars

\* C1: the rows read back from a file written by write_crmod_config are
\* the rows it was written from, as many, in the same order, each with the
\* same (A, B, M, N).
C1_RoundTrip ==
    op = "load_crmod_config" /\ args.from_disk /\ err = "ok"
        => configs = written_from

----------------------------------------------------------------------------
(* ConfigGenerator *)

\* list(range(lo, hi, step)) for step > 0
PyRange(lo, hi, step) ==
    [k \in 1..(IF hi > lo THEN (hi - lo + step - 1) \div step ELSE 0) |->
        lo + (k - 1) * step]

\* list(range(lo, hi, -step)) for step > 0
PyRangeDown(lo, hi, step) ==
    [k \in 1..(IF lo > hi THEN (lo - hi + step - 1) \div step ELSE 0) |->
        lo - (k - 1) * step]

\* the concatenation of a sequence of sequences
RECURSIVE Flatten(_)
Flatten(ss) == IF ss = <<>> THEN <<>> ELSE Head(ss) \o Flatten(Tail(ss))

\* int(x / a) for a > 0: Python's true division, truncated towards zero
TruncDiv(x, a) == IF x >= 0 THEN x \div a ELSE -((-x) \div a)

\* no generator has been called on the instance: it is new, or add_to_configs
\* was called last
NoGeneration == op \in {"__init__", "add_to_configs"}

\* a generator's batch handed to add_to_configs, and returned
Generated(name, a, batch) ==
    LET new == add_to_configs(configs_is_none, configs, batch)
    IN IF Len(batch) > 0 /\ ~configs_is_none /\ vstack_fails(configs, batch)
       THEN Raises(name, a, "ValueError")
       ELSE /\ configs_is_none' = new.is_none
            /\ configs' = new.rows
            /\ op' = name
            /\ args' = a
            /\ err' = "ok"
            /\ ret' = [NoRet EXCEPT !.configs = batch]
            /\ UNCHANGED <<nr_electrodes, measurements, meas_counter,
                           disk, written_from>>

\* the loop of gen_wenner stopping one electrode early
wenner_short(E, a) ==
    LET is == PyRange(1, E - 3 * a, 1)
    IN [k \in 1..Len(is) |-> <<is[k], is[k] + a, is[k] + 2 * a, is[k] + 3 * a>>]

\* gen_wenner(a): the rows of the loop over range(1, nr_electrodes - 3a + 1)
wenner(E, a) ==
    LET is == PyRange(1, E - 3 * a + 1, 1)
    IN [k \in 1..Len(is) |-> <<is[k], is[k] + a, is[k] + 2 * a, is[k] + 3 * a>>]

GenWenner ==
    /\ NoGeneration
    /\ \E a \in 1..MaxSpacing :
           Generated("gen_wenner", [a |-> a], wenner(nr_electrodes, a))

\* int(min(M, N) - 1 / a) for a >= 1: the float min(M, N) - 1/a truncated
\* towards zero
nr_of_steps_left(M, N, a) ==
    IF a = 1 \/ Min(M, N) >= 1 THEN Min(M, N) - 1 ELSE Min(M, N)

\* int((self.nr_electrodes - max(M, N)) / a)
nr_of_steps_right(E, M, N, a) == TruncDiv(E - Max(M, N), a)

\* gen_schlumberger(M, N) for M # N: the rows of the loop
schlumberger(E, M, N) ==
    LET a == IF M >= N THEN M - N ELSE N - M
        steps == Min(nr_of_steps_left(M, N, a), nr_of_steps_right(E, M, N, a))
    IN [i \in 1..steps |-> <<Min(M, N) - i * a, Max(M, N) + i * a, M, N>>]

\* gen_schlumberger(M, N); with M = N the division 1 / a does not give a
\* number int() accepts
GenSchlumberger ==
    /\ NoGeneration
    /\ \E M \in 1..nr_electrodes, N \in 1..nr_electrodes :
           IF M = N
           THEN Raises("gen_schlumberger", [M |-> M, N |-> N], "OverflowError")
           ELSE Generated("gen_schlumberger", [M |-> M, N |-> N],
                          schlumberger(nr_electrodes, M, N))

\* the voltage dipoles before the current dipole with the candidates taken
\* from electrode 0 upwards
dd_before_ascending(a, b, skipv, stepv, cap, start_skip) ==
    LET down == PyRangeDown(a - start_skip - 1, -1, stepv)
        ns == [k \in 1..Len(down) |-> down[Len(down) + 1 - k]]
    IN Flatten([nr \in 1..Len(ns) |->
           IF nr > cap \/ ns[nr] - skipv - 1 < 0 THEN <<>>
           ELSE << <<a + 1, b + 1, ns[nr] - skipv - 1 + 1, ns[nr] + 1>> >>])

\* the voltage dipoles before the current dipole (a, b), 0-based: candidate
\* number nr is dropped when nr exceeds the cap or its m is below 0
dd_before(a, b, skipv, stepv, cap, start_skip) ==
    LET ns == PyRangeDown(a - start_skip - 1, -1, stepv)
    IN Flatten([nr \in 1..Len(ns) |->
           IF nr > cap \/ ns[nr] - skipv - 1 < 0 THEN <<>>
           ELSE << <<a + 1, b + 1, ns[nr] - skipv - 1 + 1, ns[nr] + 1>> >>])

\* the voltage dipoles after the current dipole with the loop running one
\* electrode too far
dd_after_overrun(a, b, N, skipv, stepv, cap, start_skip) ==
    LET ms == PyRange(b + start_skip + 1, N - skipv, stepv)
    IN Flatten([nr \in 1..Len(ms) |->
           IF nr > cap THEN <<>>
           ELSE << <<a + 1, b + 1, ms[nr] + 1, ms[nr] + skipv + 1 + 1>> >>])

\* the voltage dipoles after the current dipole (a, b), 0-based
dd_after(a, b, N, skipv, stepv, cap, start_skip) ==
    LET ms == PyRange(b + start_skip + 1, N - skipv - 1, stepv)
    IN Flatten([nr \in 1..Len(ms) |->
           IF nr > cap THEN <<>>
           ELSE << <<a + 1, b + 1, ms[nr] + 1, ms[nr] + skipv + 1 + 1>> >>])

\* gen_dipole_dipole: the list `configs` after the loops; p holds skipc,
\* skipv (already defaulted to skipc), stepc, stepv, nr_voltage_dipoles,
\* before_current and start_skip
dipole_dipole(N, p) ==
    LET as == PyRange(0, N - p.skipv - p.skipc - 3, p.stepc)
    IN Flatten([j \in 1..Len(as) |->
           (IF p.before_current
            THEN dd_before(as[j], as[j] + p.skipc + 1, p.skipv, p.stepv,
                           p.nr_voltage_dipoles, p.start_skip)
            ELSE <<>>)
           \o dd_after(as[j], as[j] + p.skipc + 1, N, p.skipv, p.stepv,
                       p.nr_voltage_dipoles, p.start_skip)])

\* the arguments of gen_dipole_dipole; skipv = None takes the value of skipc
DipoleDipoleArgs ==
    {[skipc |-> sc, skipv |-> IF sv = -1 THEN sc ELSE sv, stepc |-> tc,
      stepv |-> tv, nr_voltage_dipoles |-> nv, before_current |-> bc,
      start_skip |-> ss] :
        sc \in 0..MaxSkip, sv \in -1..MaxSkip, tc \in 1..MaxStep,
        tv \in 1..MaxStep, nv \in 0..MaxDipoles, bc \in BOOLEAN,
        ss \in 0..MaxSkip}

\* gen_dipole_dipole stores its batch itself (lines 385-391): an empty
\* batch too, which numpy.vstack refuses on a populated store
GenDipoleDipole ==
    /\ NoGeneration
    /\ \E p \in DipoleDipoleArgs :
           LET batch == dipole_dipole(nr_electrodes, p)
           IN IF ~configs_is_none /\ vstack_fails(configs, batch)
              THEN Raises("gen_dipole_dipole", p, "ValueError")
              ELSE /\ configs_is_none' = FALSE
                   /\ configs' = IF configs_is_none THEN batch
                                 ELSE vstack(configs, batch)
                   /\ op' = "gen_dipole_dipole"
                   /\ args' = p
                   /\ err' = "ok"
                   /\ ret' = [NoRet EXCEPT !.configs = batch]
                   /\ UNCHANGED <<nr_electrodes, measurements, meas_counter,
                                  disk, written_from>>

----------------------------------------------------------------------------
(* ReciprocityMatcher *)

\* an entry of the returned lists: a row of the store, or numpy.ones(4) * nan
Real(r) == [nan |-> FALSE, row |-> r]
Placeholder == [nan |-> TRUE, row |-> <<>>]

\* the elements of a set of indices in increasing order
RECURSIVE Ascending(_)
Ascending(S) ==
    IF S = {} THEN <<>>
    ELSE LET m == CHOOSE x \in S : \A y \in S : x <= y
         IN <<m>> \o Ascending(S \ {m})

\* a row of the array with AB and MN sorted
sorted_halves(r) ==
    <<Min(r[1], r[2]), Max(r[1], r[2]), Min(r[3], r[4]), Max(r[3], r[4])>>

\* the normal rows taken with rule 1 not strict
indices_normal_nonstrict(cfgs) ==
    Ascending({i \in 1..Len(cfgs) :
                  sorted_halves(cfgs[i])[1] <= sorted_halves(cfgs[i])[3]})

\* np.where(ab_min < mn_min)[0]
indices_normal(cfgs) ==
    Ascending({i \in 1..Len(cfgs) :
                  sorted_halves(cfgs[i])[1] < sorted_halves(cfgs[i])[3]})

\* np.where(A == M, B == N, M == A, N == B)[0] for the normal row at index
index_rec(cfgs, index) ==
    {j \in 1..Len(cfgs) :
        LET c == sorted_halves(cfgs[j])
            n == sorted_halves(cfgs[index])
        IN c[1] = n[3] /\ c[2] = n[4] /\ c[3] = n[1] /\ c[4] = n[2]}

\* what the loop appends to `reciprocal` for a normal row when padding is
\* never applied
reciprocal_entry_unpadded(cfgs, index, pad) ==
    IF index_rec(cfgs, index) = {} THEN <<>>
    ELSE <<Real(cfgs[Ascending(index_rec(cfgs, index))[1]])>>

\* what the loop appends to `reciprocal` for the normal row at index
reciprocal_entry(cfgs, index, pad) ==
    IF index_rec(cfgs, index) = {}
    THEN IF pad THEN <<Placeholder>> ELSE <<>>
    ELSE <<Real(cfgs[Ascending(index_rec(cfgs, index))[1]])>>

\* indices_used when only the reciprocal taken is marked
indices_used_first_only(cfgs) ==
    LET ns == indices_normal(cfgs)
    IN {ns[k] : k \in 1..Len(ns)}
           \cup {Ascending(index_rec(cfgs, ns[k]))[1] :
                      k \in {i \in 1..Len(ns) : index_rec(cfgs, ns[i]) # {}}}

\* indices_used after the loop over indices_normal
indices_used(cfgs) ==
    LET ns == indices_normal(cfgs)
    IN {ns[k] : k \in 1..Len(ns)}
           \cup UNION {index_rec(cfgs, ns[k]) : k \in 1..Len(ns)}

\* set_all_indices - set_used_indices, iterated in increasing order
reciprocal_only_indices(cfgs) ==
    Ascending((1..Len(cfgs)) \ indices_used(cfgs))

\* the two lists split_into_normal_and_reciprocal returns
split_into_normal_and_reciprocal(cfgs, pad) ==
    LET ns == indices_normal(cfgs)
        os == reciprocal_only_indices(cfgs)
    IN [normal |->
            [k \in 1..Len(ns) |-> Real(cfgs[ns[k]])]
            \o (IF pad THEN [k \in 1..Len(os) |-> Placeholder] ELSE <<>>),
        reciprocal |->
            Flatten([k \in 1..Len(ns) |-> reciprocal_entry(cfgs, ns[k], pad)])
            \o [k \in 1..Len(os) |-> Real(cfgs[os[k]])]]

\* split_into_normal_and_reciprocal(pad); self.configs = None cannot be
\* indexed
SplitIntoNormalAndReciprocal ==
    \E pad \in BOOLEAN :
        IF configs_is_none
        THEN Raises("split_into_normal_and_reciprocal", [pad |-> pad],
                    "TypeError")
        ELSE LET r == split_into_normal_and_reciprocal(configs, pad)
             IN /\ op' = "split_into_normal_and_reciprocal"
                /\ args' = [pad |-> pad]
                /\ err' = "ok"
                /\ ret' = [NoRet EXCEPT !.normal = r.normal,
                                        !.reciprocal = r.reciprocal]
                /\ UNCHANGED <<instance_vars, disk, written_from>>

\* rows stored before a split: normal rows, rows with the dipoles swapped,
\* and a row that is neither
SplitRows ==
    {<<1, 2, 3, 4>>, <<2, 1, 3, 4>>, <<3, 4, 1, 2>>, <<4, 3, 2, 1>>,
     <<1, 2, 1, 3>>, <<5, 6, 7, 8>>}

NextSplit ==
    \/ AddToConfigs(SplitRows, MaxSplitRows)
    \/ SplitIntoNormalAndReciprocal

SpecSplit == Init /\ [][NextSplit]_vars

\* C6: with pad=True the two returned lists have the same length and at
\* every position either hold a normal row and a row with its sorted dipoles
\* swapped, or exactly one placeholder.
C6_PaddedSplit ==
    (op = "split_into_normal_and_reciprocal" /\ err = "ok" /\ args.pad) =>
        /\ Len(ret.normal) = Len(ret.reciprocal)
        /\ \A i \in 1..Len(ret.normal) :
               LET n == ret.normal[i]
                   r == ret.reciprocal[i]
               IN \/ /\ ~n.nan /\ ~r.nan
                     /\ <<Min(r.row[1], r.row[2]), Max(r.row[1], r.row[2])>>
                            = <<Min(n.row[3], n.row[4]), Max(n.row[3], n.row[4])>>
                     /\ <<Min(r.row[3], r.row[4]), Max(r.row[3], r.row[4])>>
                            = <<Min(n.row[1], n.row[2]), Max(n.row[1], n.row[2])>>
                  \/ n.nan # r.nan
        /\ configs = << <<1, 2, 3, 4>>, <<3, 4, 1, 2>> >> =>
               \E i \in 1..Len(ret.normal) :
                   /\ ret.normal[i] = [nan |-> FALSE, row |-> <<1, 2, 3, 4>>]
                   /\ ret.reciprocal[i] = [nan |-> FALSE, row |-> <<3, 4, 1, 2>>]
        /\ configs = << <<1, 2, 3, 4>> >> =>
               \E i \in 1..Len(ret.normal) :
                   /\ ret.normal[i] = [nan |-> FALSE, row |-> <<1, 2, 3, 4>>]
                   /\ ret.reciprocal[i].nan

\* a padded split with a matched pair, a normal row without reciprocal and
\* a row that is nobody's reciprocal
C6_Witness ==
    /\ op = "split_into_normal_and_reciprocal" /\ err = "ok" /\ args.pad
    /\ \E i \in 1..Len(ret.normal) :
           ~ret.normal[i].nan /\ ~ret.reciprocal[i].nan
    /\ \E i \in 1..Len(ret.normal) : ret.reciprocal[i].nan
    /\ \E i \in 1..Len(ret.normal) : ret.normal[i].nan

----------------------------------------------------------------------------
(* DuplicateResolver *)

\* the order of numpy.unique on the rows viewed as records of four fields
RowLess(r, s) ==
    \E j \in 1..4 : r[j] < s[j] /\ \A i \in 1..(j - 1) : r[i] = s[i]

\* the rows of a set in that order
RECURSIVE AscendingRows(_)
AscendingRows(S) ==
    IF S = {} THEN <<>>
    ELSE LET m == CHOOSE r \in S : \A t \in S : r = t \/ RowLess(r, t)
         IN <<m>> \o AscendingRows(S \ {m})

\* uniqueness taken on the rows with AB and MN sorted
np_unique_sorted_halves(c) ==
    AscendingRows({sorted_halves(c[i]) : i \in 1..Len(c)})

\* np.unique(struct).view(c.dtype).reshape(-1, 4)
np_unique(c) == AscendingRows({c[i] : i \in 1..Len(c)})

\* rows handed to remove_duplicates, and stored before it
DedupRows == {<<1, 2, 3, 4>>, <<2, 1, 3, 4>>, <<5, 6, 7, 8>>}

\* remove_duplicates(): self.configs is replaced, nothing is returned;
\* None has no view
RemoveDuplicates ==
    IF configs_is_none
    THEN Raises("remove_duplicates", [given |-> FALSE, configs |-> <<>>],
                "AttributeError")
    ELSE /\ configs' = np_unique(configs)
         /\ op' = "remove_duplicates"
         /\ args' = [given |-> FALSE, configs |-> <<>>]
         /\ err' = "ok"
         /\ ret' = NoRet
         /\ UNCHANGED <<nr_electrodes, configs_is_none, measurements,
                        meas_counter, disk, written_from>>

\* remove_duplicates(configs): the unique rows are returned
RemoveDuplicatesOf ==
    \E c \in SeqsOf(DedupRows, 1, MaxDedupRows) :
        /\ op' = "remove_duplicates"
        /\ args' = [given |-> TRUE, configs |-> c]
        /\ err' = "ok"
        /\ ret' = [NoRet EXCEPT !.configs = np_unique(c)]
        /\ UNCHANGED <<instance_vars, disk, written_from>>

NextDedup ==
    \/ AddToConfigs(DedupRows, MaxDedupRows)
    \/ RemoveDuplicates
    \/ RemoveDuplicatesOf

SpecDedup == Init /\ [][NextDedup]_vars

\* the rows of c in the order given by the permutation f of its indices
Reordered(c, f) == [i \in 1..Len(c) |-> c[f[i]]]

\* C7: remove_duplicates gives one row per distinct 4-tuple of its input,
\* rows being the same only when equal column by column: the rows of the
\* output are those of the input, none twice, and the same for every order
\* of the input; with an array the store is unchanged, without one the store
\* is replaced by the deduplicated rows.
C7_RemoveDuplicates ==
    [][(op' = "remove_duplicates" /\ err' = "ok") =>
        LET input == IF args'.given THEN args'.configs ELSE configs
            out == IF args'.given THEN ret'.configs ELSE configs'
        IN /\ {out[i] : i \in 1..Len(out)} = {input[i] : i \in 1..Len(input)}
           /\ \A i, j \in 1..Len(out) : out[i] = out[j] => i = j
           /\ \A f \in Permutations(1..Len(input)) :
                  np_unique(Reordered(input, f)) = out
           /\ args'.given =>
                  configs' = configs /\ configs_is_none' = configs_is_none
           /\ ~args'.given => ret' = NoRet
           /\ UNCHANGED <<measurements, meas_counter, nr_electrodes>>]_vars

\* an array holding a row twice and the same row with A and B exchanged
C7_Witness ==
    /\ op = "remove_duplicates" /\ err = "ok" /\ args.given
    /\ args.configs = << <<2, 1, 3, 4>>, <<1, 2, 3, 4>>, <<2, 1, 3, 4>> >>
    /\ ret.configs = << <<1, 2, 3, 4>>, <<2, 1, 3, 4>> >>
    /\ configs = << <<5, 6, 7, 8>>, <<5, 6, 7, 8>> >>

----------------------------------------------------------------------------
(* ConfigGenerator: the generators that use the duplicate removal, and   *)
(* the generator model.                                                    *)

\* gen_gradient: the list `quadpoles` after the loops
gradient(N, skip, step, vskip, vstep) ==
    LET as == PyRange(1, N - skip, step)
    IN Flatten([j \in 1..Len(as) |->
           LET a == as[j]
               b == a + skip + 1
               ms == PyRange(a + 1, b - vskip - 1, vstep)
           IN [k \in 1..Len(ms) |-> <<a, b, ms[k], ms[k] + vskip + 1>>]])

\* gen_gradient(skip, step, vskip, vstep): nothing is stored and None is
\* returned when no quadpole was generated
GenGradient ==
    /\ NoGeneration
    /\ \E skip \in 0..MaxSkip, step \in 1..MaxStep,
          vskip \in 0..MaxSkip, vstep \in 1..MaxStep :
           LET a == [skip |-> skip, step |-> step,
                     vskip |-> vskip, vstep |-> vstep]
               batch == gradient(nr_electrodes, skip, step, vskip, vstep)
           IN IF batch = <<>>
              THEN /\ op' = "gen_gradient"
                   /\ args' = a
                   /\ err' = "ok"
                   /\ ret' = NoRet
                   /\ UNCHANGED <<instance_vars, disk, written_from>>
              ELSE Generated("gen_gradient", a, batch)

\* the quadpoles of one current dipole: the dipole with every ordered pair
\* of the electrodes left after deleting its two electrodes
quadpoles_of(N, idipole) ==
    LET velecs == Ascending((1..N) \ {idipole[1], idipole[2]})
    IN Flatten([i \in 1..Len(velecs) |->
           Flatten([j \in 1..Len(velecs) |->
               IF i = j THEN <<>>
               ELSE << <<idipole[1], idipole[2], velecs[i], velecs[j]>> >>])])

\* all_quadpoles after the loop over the injections
all_quadpoles(N, injections) ==
    Flatten([k \in 1..Len(injections) |-> quadpoles_of(N, injections[k])])

\* current dipoles handed to gen_all_voltages_for_injections
InjectionDipoles == {<<1, 2>>, <<2, 1>>, <<2, 4>>}

\* gen_all_voltages_for_injections(injections): deleting an electrode
\* beyond N from velecs and slicing the columns of an empty array raise
\* IndexError before anything is stored
GenAllVoltagesForInjections ==
    /\ NoGeneration
    /\ \E injections \in SeqsOf(InjectionDipoles, 0, MaxInjections) :
           LET a == [injections |-> injections]
               unsorted == all_quadpoles(nr_electrodes, injections)
               configs_sorted ==
                   [k \in 1..Len(unsorted) |-> sorted_halves(unsorted[k])]
           IN IF \/ \E k \in 1..Len(injections) :
                        Max(injections[k][1], injections[k][2]) > nr_electrodes
                 \/ unsorted = <<>>
              THEN Raises("gen_all_voltages_for_injections", a, "IndexError")
              ELSE Generated("gen_all_voltages_for_injections", a,
                             np_unique(configs_sorted))

----------------------------------------------------------------------------
(* The generator model: an instance with 0..MaxElectrodes electrodes, new  *)
(* or populated with add_to_configs, on which one pattern generator is     *)
(* called.                                                                 *)

InitGen == \E E \in 0..MaxElectrodes : Constructed(E)

Populate == NoGeneration /\ AddToConfigs(StoreRows, MaxGenStore)

NextGen ==
    \/ Populate
    \/ GenWenner
    \/ GenSchlumberger
    \/ GenDipoleDipole
    \/ GenGradient
    \/ GenAllVoltagesForInjections

SpecGen == InitGen /\ [][NextGen]_vars

----------------------------------------------------------------------------
(* The three generators' batches. *)

\* C8: gen_schlumberger(M, N), M # N, returns min(L, R) rows, L the steps of
\* width a = |M - N| that fit between electrode 1 and min(M, N) and R those
\* that fit between max(M, N) and E; row s is
\* (min(M, N) - s a, max(M, N) + s a, M, N), every electrode within 1..E.
C8_Schlumberger ==
    (op = "gen_schlumberger" /\ err = "ok") =>
        LET M == args.M
            N == args.N
            a == Max(M, N) - Min(M, N)
            L == (Min(M, N) - 1) \div a
            R == (nr_electrodes - Max(M, N)) \div a
        IN /\ ret.configs = [s \in 1..Min(L, R) |->
                  <<Min(M, N) - s * a, Max(M, N) + s * a, M, N>>]
           /\ \A s \in 1..Len(ret.configs) : \A j \in 1..4 :
                  ret.configs[s][j] \in 1..nr_electrodes

\* C9: every row of gen_dipole_dipole has its electrodes within 1..N,
\* B = A + skipc + 1, N = M + skipv + 1, and its voltage dipole after the
\* current dipole (B < M) or, with before_current, before it (N < A).
C9_DipoleDipole ==
    (op = "gen_dipole_dipole" /\ err = "ok") =>
        \A k \in 1..Len(ret.configs) :
            LET r == ret.configs[k]
            IN /\ \A j \in 1..4 : r[j] \in 1..nr_electrodes
               /\ r[2] = r[1] + args.skipc + 1
               /\ r[4] = r[3] + args.skipv + 1
               /\ r[2] < r[3] \/ (args.before_current /\ r[4] < r[1])

\* on 10 electrodes with skipc = 0 and before_current, voltage dipoles on
\* both sides of a current dipole
C9_Witness ==
    /\ op = "gen_dipole_dipole" /\ err = "ok"
    /\ nr_electrodes = 10 /\ args.skipc = 0 /\ args.before_current
    /\ \E k \in 1..Len(ret.configs) : ret.configs[k][4] < ret.configs[k][1]
    /\ \E k \in 1..Len(ret.configs) :
           /\ ret.configs[k][2] < ret.configs[k][3]
           /\ ret.configs[k][4] = 10

\* C10: gen_wenner(a) returns exactly the rows (i, i + a, i + 2a, i + 3a) for
\* i = 1..E - 3a in increasing i, none when E <= 3a; 5 rows for a = 1, E = 8.
C10_Wenner ==
    (op = "gen_wenner" /\ err = "ok") =>
        LET a == args.a
            E == nr_electrodes
        IN /\ ret.configs = [i \in 1..Max(E - 3 * a, 0) |->
                  <<i, i + a, i + 2 * a, i + 3 * a>>]
           /\ E <= 3 * a => ret.configs = <<>>
           /\ (a = 1 /\ E = 8) =>
                  ret.configs = << <<1, 2, 3, 4>>, <<2, 3, 4, 5>>,
                                   <<3, 4, 5, 6>>, <<4, 5, 6, 7>>,
                                   <<5, 6, 7, 8>> >>

C10_Witness ==
    /\ op = "gen_wenner" /\ err = "ok"
    /\ args.a = 1 /\ nr_electrodes = 8
    /\ Len(ret.configs) = 5

\* the pattern generators
Generators ==
    {"gen_dipole_dipole", "gen_gradient", "gen_schlumberger", "gen_wenner",
     "gen_all_voltages_for_injections"}

\* C11: a pattern generator called on any store does not fail on the store,
\* keeps the stored rows as a prefix of the new store, appends exactly the
\* rows of the batch it returns, leaves the measurements and the id counter
\* alone, and with an empty batch leaves the store as it was: an empty
\* store (None) stays empty.
C11_GeneratorsAppend ==
    [][op' \in Generators =>
        /\ err' # "ValueError"
        /\ err' = "ok" =>
               /\ Len(configs') = Len(configs) + Len(ret'.configs)
               /\ SubSeq(configs', 1, Len(configs)) = configs
               /\ SubSeq(configs', Len(configs) + 1, Len(configs'))
                      = ret'.configs
               /\ UNCHANGED <<measurements, meas_counter>>
               /\ ret'.configs = <<>> =>
                      UNCHANGED <<configs, configs_is_none>>]_vars

----------------------------------------------------------------------------
(* The split without padding, and with several reciprocals. *)

\* rule 1 on a stored row: the smaller current electrode is below the
\* smaller voltage electrode
IsNormal(r) == Min(r[1], r[2]) < Min(r[3], r[4])

\* r has the dipoles of n exchanged, each dipole taken as a set
IsReciprocalOf(r, n) == {r[1], r[2]} = {n[3], n[4]} /\ {r[3], r[4]} = {n[1], n[2]}

\* the indices of the stored rows that are reciprocals of the row at n
MatchesOf(n) == {j \in 1..Len(configs) : IsReciprocalOf(configs[j], configs[n])}

\* the indices of the stored rows that are neither normal nor the reciprocal
\* of a normal row
Orphans ==
    {j \in 1..Len(configs) :
        /\ ~IsNormal(configs[j])
        /\ \A n \in 1..Len(configs) :
               IsNormal(configs[n]) => j \notin MatchesOf(n)}

\* how often the row r occurs in the list of entries l
Occurrences(l, r) ==
    Cardinality({i \in 1..Len(l) : l[i] = [nan |-> FALSE, row |-> r]})

\* C12: with pad=False the normal list is the stored rows with
\* min(A,B) < min(M,N), each once and in the order of the store; no normal
\* row is on the reciprocal side; a row that is neither normal nor the
\* reciprocal of a normal row is on the reciprocal side once per stored
\* copy and not on the normal side.
C12_UnpaddedSplit ==
    (op = "split_into_normal_and_reciprocal" /\ err = "ok" /\ ~args.pad) =>
        /\ LET normals == SelectSeq(configs, IsNormal)
           IN ret.normal =
                  [k \in 1..Len(normals) |-> [nan |-> FALSE, row |-> normals[k]]]
        /\ \A i \in 1..Len(ret.reciprocal) :
               ~ret.reciprocal[i].nan /\ ~IsNormal(ret.reciprocal[i].row)
        /\ \A j \in Orphans :
               /\ Occurrences(ret.reciprocal, configs[j])
                      = Cardinality({k \in 1..Len(configs) :
                                        configs[k] = configs[j]})
               /\ Occurrences(ret.normal, configs[j]) = 0

\* two normal rows, one of them with its reciprocal, and an orphan stored
\* twice
C12_Witness ==
    /\ op = "split_into_normal_and_reciprocal" /\ err = "ok" /\ ~args.pad
    /\ Len(ret.normal) = 1
    /\ Len(ret.reciprocal) = 3
    /\ Cardinality(Orphans) = 2
    /\ \E n \in 1..Len(configs) : IsNormal(configs[n]) /\ MatchesOf(n) # {}

\* C13: for a normal row with several reciprocals in the store the split
\* emits the one with the lowest index; the others are consumed: they are
\* not emitted as reciprocals and not as orphans, so a stored row that is
\* only such an extra is in neither list, and the reciprocal list holds one
\* entry per normal row with a reciprocal (per normal row, with padding) and
\* one per orphan.
C13_SeveralReciprocals ==
    (op = "split_into_normal_and_reciprocal" /\ err = "ok") =>
        LET normal_indices == {n \in 1..Len(configs) : IsNormal(configs[n])}
            First(n) == CHOOSE j \in MatchesOf(n) : \A i \in MatchesOf(n) : j <= i
            matched == {n \in normal_indices : MatchesOf(n) # {}}
            firsts == {First(n) : n \in matched}
            extras == UNION {MatchesOf(n) \ {First(n)} : n \in matched}
        IN /\ \A n \in matched :
                  \* the k-th normal row and the reciprocal emitted for it
                  LET k == Cardinality({i \in normal_indices : i <= n})
                      e == IF args.pad THEN k
                           ELSE Cardinality({i \in matched : i <= n})
                  IN /\ ret.normal[k].row = configs[n]
                     /\ ret.reciprocal[e] = [nan |-> FALSE,
                                             row |-> configs[First(n)]]
           /\ \A j \in extras :
                  (\A f \in firsts : configs[f] # configs[j]) =>
                      /\ Occurrences(ret.reciprocal, configs[j]) = 0
                      /\ Occurrences(ret.normal, configs[j]) = 0
           /\ Len(ret.reciprocal) =
                  Cardinality(IF args.pad THEN normal_indices ELSE matched)
                      + Cardinality(Orphans)
           /\ extras \cap Orphans = {}

\* the store (1,2,3,4), (4,3,2,1), (3,4,1,2): the second row is emitted, the
\* third is in neither list
C13_Witness ==
    /\ op = "split_into_normal_and_reciprocal" /\ err = "ok"
    /\ configs = << <<1, 2, 3, 4>>, <<4, 3, 2, 1>>, <<3, 4, 1, 2>> >>
    /\ ret.reciprocal = << [nan |-> FALSE, row |-> <<4, 3, 2, 1>>] >>
    /\ ret.normal = << [nan |-> FALSE, row |-> <<1, 2, 3, 4>>] >>

----------------------------------------------------------------------------
(* The cap of gen_dipole_dipole. *)

\* the first electrodes a (0-based) of the current dipoles of the last
\* gen_dipole_dipole call
CurrentDipoles ==
    {a \in 0..nr_electrodes :
        a < nr_electrodes - args.skipv - args.skipc - 3 /\ a % args.stepc = 0}

\* the first electrodes m (0-based) of the voltage dipoles that are
\* candidates after the current dipole starting at a
AfterCandidates(a) ==
    LET first == a + args.skipc + 1 + args.start_skip + 1
    IN {m \in 0..nr_electrodes :
           /\ m >= first /\ (m - first) % args.stepv = 0
           /\ m < nr_electrodes - args.skipv - 1}

\* the second electrodes n (0-based) of the candidates before it whose
\* first electrode n - skipv - 1 is an electrode
BeforeCandidatesInRange(a) ==
    LET first == a - args.start_skip - 1
    IN {n \in 0..nr_electrodes :
           /\ n <= first /\ (first - n) % args.stepv = 0
           /\ n - args.skipv - 1 >= 0}

\* the rows returned for the current dipole starting at a with the voltage
\* dipole after it, and before it
RowsAfter(a) ==
    {k \in 1..Len(ret.configs) :
        ret.configs[k][1] = a + 1 /\ ret.configs[k][3] > ret.configs[k][2]}
RowsBefore(a) ==
    {k \in 1..Len(ret.configs) :
        ret.configs[k][1] = a + 1 /\ ret.configs[k][4] < ret.configs[k][1]}

\* C14: for every current dipole gen_dipole_dipole emits
\* min(nr_voltage_dipoles, candidates) voltage dipoles after it and, with
\* before_current, min(nr_voltage_dipoles, candidates in the electrode
\* range) before it: candidates out of the range take nothing from the cap.
C14_DipoleCap ==
    (op = "gen_dipole_dipole" /\ err = "ok") =>
        /\ \A a \in CurrentDipoles :
               /\ Cardinality(RowsAfter(a))
                      = Min(args.nr_voltage_dipoles,
                            Cardinality(AfterCandidates(a)))
               /\ Cardinality(RowsBefore(a))
                      = IF args.before_current
                        THEN Min(args.nr_voltage_dipoles,
                                 Cardinality(BeforeCandidatesInRange(a)))
                        ELSE 0
        /\ \A k \in 1..Len(ret.configs) : ret.configs[k][1] - 1 \in CurrentDipoles

\* a current dipole with more candidates in the range than the cap on both
\* sides, and a candidate before it out of the range
C14_Witness ==
    /\ op = "gen_dipole_dipole" /\ err = "ok" /\ args.before_current
    /\ args.nr_voltage_dipoles = 2 /\ args.skipv = 0 /\ args.stepv = 1
    /\ \E a \in CurrentDipoles :
           /\ Cardinality(BeforeCandidatesInRange(a)) > 2
           /\ Cardinality(AfterCandidates(a)) > 2
           /\ a - args.start_skip - 1 >= 0
           /\ Cardinality(RowsBefore(a)) = 2
           /\ Cardinality(RowsAfter(a)) = 2

====
